---- MODULE Spec2Model ----
(***************************************************************************)
(* Job orchestration of the NebenkostenRetter server (src/server.js):      *)
(* the three in-memory maps pendingFiles / activeAnalyses /                *)
(* completedResults, the background analysis job started by                *)
(* startBackgroundAnalysis, and the request handlers that drive it         *)
(* (checkout, GET /api/result, POST /api/retry-analysis, POST /webhook,    *)
(* GET /api/download-pdf, the cleanup sweep), and one call of              *)
(* runAnalysisWithRetry taken on its own.                                  *)
(*                                                                         *)
(* Granularity.  Node runs one handler at a time; a handler or a job       *)
(* gives up control only at an await of an external call.  Every action    *)
(* below is the code that runs from one such suspension point to the       *)
(* next.  The promise chain .then/.catch/.finally of a job is resolved in  *)
(* one microtask drain: when the then-handler (or the catch-handler)       *)
(* returns, the finally-callback runs before any other request handler,    *)
(* so the store of the record and the cleanup belong to the same action    *)
(* unless an await lies between them.                                      *)
(*                                                                         *)
(* Time is counted in minutes.  The code reads an entry's createdAt only   *)
(* in the difference now - createdAt, so each entry carries that           *)
(* difference as its age; ages above the largest TTL are all alike and     *)
(* are kept at one value.  Uploads are numbered in the order in which the  *)
(* server stores them; the job of an upload is the job that captured that  *)
(* upload as its `pending` object.                                         *)
(***************************************************************************)
EXTENDS Integers, Sequences, FiniteSets, TLC

\* ------------------------------------------------------------------ bounds
MaxUploads == 2
MaxPolls == 2
MaxMaxRetries == 3
MaxFindings == 2
MaxFiles == 2

\* ------------------------------------------------------- program constants
TTL_FILES == 30
TTL_RESULTS == 60
DefaultMaxRetries == 2
MAX_PDF_TEXT_CHARS == 15000
MAX_PDF_BASE64_MB == 5
MAX_IMAGE_WIDTH == 1200

\* the checkout sessions Stripe can hand out, and the ones whose customers
\* act when a single session is looked at
SessionIds == {"cs_1", "cs_2"}
Sessions == {"cs_1"}
Uploads == 1..MaxUploads

\* result.validierung as returned by the model; "missing" is an absent field
ValidationStatuses == {"ok", "missing", "nicht_lesbar", "sonstige"}
\* err.status of a failed runAnalysis; 0 is an error without a status
ErrorStatuses == {0, 429, 500, 401}
\* the same for a call of runAnalysisWithRetry taken on its own
WrapperStatuses == {0, 429, 500, 502, 503, 400, 401}

NoEntry == [present |-> FALSE]

VARIABLES
    env,               \* process.env: which credentials are configured
    stripeSessions,    \* the payment collaborator's checkout sessions, and
                       \* whether it has refunded the session's payment
    pendingFiles,      \* Map session_id -> { files, email, ..., createdAt }
    activeAnalyses,    \* Set of session_ids
    completedResults,  \* Map session_id -> { result | error, ..., createdAt }
    jobs,              \* the promise chain started for each upload
    pollsWaiting,      \* GET /api/result requests awaiting the Stripe lookup
    nextUpload,        \* number of the next upload the server stores
    refundCalls,       \* stripe.refunds.create calls issued, per session
    events,            \* data/events.json: the refund_issued and
                       \* result_pdf_downloaded events, per session
    orders,            \* data/orders.json: refund_status of the session's order
    wrapper,           \* one call of runAnalysisWithRetry taken on its own
    parse,             \* one model response handled by runAnalysis
    prep               \* one call of buildContentFromFiles

vars == <<env, stripeSessions, pendingFiles, activeAnalyses, completedResults,
          jobs, pollsWaiting, nextUpload, refundCalls,
          events, orders, wrapper, parse, prep>>

\* ----------------------------------------------------------------- helpers
NoJob == [pc |-> "none", sid |-> "", attempt |-> 0, val |-> "", email |-> FALSE,
          launches |-> 0]

\* the maps a handler reads and writes between two suspension points
Maps == [pf |-> pendingFiles, act |-> activeAnalyses, cr |-> completedResults,
         jobs |-> jobs]

Commit(m) ==
    /\ pendingFiles' = m.pf
    /\ activeAnalyses' = m.act
    /\ completedResults' = m.cr
    /\ jobs' = m.jobs

InFlight(u) == jobs[u].pc \notin {"none", "settled"}
JobsInFlight(s) == {u \in Uploads : InFlight(u) /\ jobs[u].sid = s}
JobsOf(s) == {u \in Uploads : jobs[u].pc # "none" /\ jobs[u].sid = s}

\* a transience test that takes an error without a status for permanent
IsTransientNeedsStatus(status) == status \in {429, 500, 502, 503}

\* a transience test that also retries an authorization failure
IsTransientOr401(status) == status \in {429, 500, 502, 503, 401} \/ status = 0

\* err.status === 429 || 500 || 502 || 503 || !err.status
IsTransient(status) == status \in {429, 500, 502, 503} \/ status = 0

\* a retry test that gives up one attempt early
ShouldRetryOneLess(status, attempt, maxRetries) ==
    IsTransient(status) /\ attempt < maxRetries

\* if (isTransient && attempt <= maxRetries)
ShouldRetry(status, attempt, maxRetries) ==
    IsTransient(status) /\ attempt <= maxRetries

\* a classification that knows no rate limit
ErrorTypeOfNoRateLimit(status) ==
    IF status = 401 THEN "config_error"
    ELSE "analysis_failed"

\* the catch-handler's classification of the propagated error
ErrorTypeOf(status) ==
    IF status = 429 THEN "rate_limit"
    ELSE IF status = 401 THEN "config_error"
    ELSE "analysis_failed"

\* the catch-handler's errorMsg for each errorType
ErrorMsgOf(errorType) ==
    IF errorType = "config_error"
    THEN "Interner Konfigurationsfehler. Bitte kontaktieren Sie den Support."
    ELSE IF errorType = "rate_limit"
    THEN "Unser System ist gerade überlastet. Bitte versuchen Sie es in wenigen Minuten erneut."
    ELSE "Die Analyse konnte leider nicht abgeschlossen werden."

SuccessRecord(u) ==
    [present |-> TRUE, kind |-> "result", errorType |-> "", refunded |-> FALSE,
     upload |-> u, age |-> 0]

FailureRecord(u, errorType, refunded) ==
    [present |-> TRUE, kind |-> "error", errorType |-> errorType,
     refunded |-> refunded, upload |-> u, age |-> 0]

PendingRecord(u, email) ==
    [present |-> TRUE, upload |-> u, email |-> email, age |-> 0]

\* a launch that waits until no job of any session is running
startBackgroundAnalysisOneAtATime(m, s) ==
    IF m.act # {} THEN m
    ELSE IF ~m.pf[s].present THEN m
    ELSE LET u == m.pf[s].upload IN
         [m EXCEPT !.act = @ \cup {s},
                   !.jobs[u] = [pc |-> "analysis", sid |-> s, attempt |-> 1,
                                val |-> "", email |-> m.pf[s].email,
                                launches |-> m.jobs[u].launches + 1]]

\* function startBackgroundAnalysis(sessionId), up to the start of the chain
startBackgroundAnalysis(m, s) ==
    IF s \in m.act THEN m
    ELSE IF ~m.pf[s].present THEN m
    ELSE LET u == m.pf[s].upload IN
         [m EXCEPT !.act = @ \cup {s},
                   !.jobs[u] = [pc |-> "analysis", sid |-> s, attempt |-> 1,
                                val |-> "", email |-> m.pf[s].email,
                                launches |-> m.jobs[u].launches + 1]]

\* a cleanup that forgets activeAnalyses.delete
finallyCleanupKeepsFlag(m, s) ==
    [m EXCEPT !.pf[s] = NoEntry]

\* a cleanup that forgets pendingFiles.delete
finallyCleanupKeepsFiles(m, s) ==
    [m EXCEPT !.act = @ \ {s}]

\* .finally(() => { activeAnalyses.delete; pendingFiles.delete })
finallyCleanup(m, s) ==
    [m EXCEPT !.act = @ \ {s}, !.pf[s] = NoEntry]

\* the job's chain has settled: the record of the promise is dropped
Settle(m, u) ==
    LET s == m.jobs[u].sid IN
    [finallyCleanup(m, s) EXCEPT
        !.jobs[u] = [NoJob EXCEPT !.pc = "settled", !.sid = s,
                                  !.launches = m.jobs[u].launches]]

\* .catch(err => completedResults.set(sessionId, { error, errorType }))
catchHandler(m, u, status) ==
    [m EXCEPT !.cr[m.jobs[u].sid] = FailureRecord(u, ErrorTypeOf(status), FALSE)]

\* no call of runAnalysisWithRetry is looked at on its own
WrapperIdle ==
    [pc |-> "idle", maxRetries |-> 0, attempt |-> 0, invocations |-> 0,
     delay |-> 0, delays |-> 0, waited |-> 0,
     lastError |-> [by |-> 0, status |-> 0], outcome |-> [by |-> 0, status |-> 0]]

\* no model response is looked at on its own
ParseIdle ==
    [pc |-> "idle", attempt |-> 0, text |-> <<>>, stop |-> "", expected |-> <<>>,
     jsonStr |-> <<>>, error |-> "", wohnflaeche |-> "absent",
     livingAreaSqm |-> "none", result |-> ""]

\* no call of buildContentFromFiles is looked at on its own
PrepIdle == [pc |-> "idle", files |-> <<>>, content |-> <<>>, error |-> ""]

\* ------------------------------------------------------------------- Init
InitMaps ==
    /\ stripeSessions = [s \in SessionIds |-> [payment_status |-> "none", customer_email |-> FALSE,
                                  refunded |-> FALSE]]
    /\ pendingFiles = [s \in SessionIds |-> NoEntry]
    /\ activeAnalyses = {}
    /\ completedResults = [s \in SessionIds |-> NoEntry]
    /\ jobs = [u \in Uploads |-> NoJob]
    /\ pollsWaiting = [s \in SessionIds |-> 0]
    /\ nextUpload = 1
    /\ refundCalls = [s \in SessionIds |-> 0]
    /\ events = [s \in SessionIds |-> {}]
    /\ orders = [s \in SessionIds |-> "absent"]

Init ==
    /\ env \in [anthropicKey : BOOLEAN, webhookSecret : BOOLEAN, resend : BOOLEAN]
    /\ InitMaps
    /\ wrapper = WrapperIdle
    /\ parse = ParseIdle
    /\ prep = PrepIdle

\* ------------------------------------------------- the background job
\* state a job step leaves alone
JobFrame ==
    /\ UNCHANGED <<prep, parse, wrapper, env, stripeSessions, pollsWaiting, nextUpload>>

\* a validation check that sends every result down the refund branch
ValidationFailedAlways(v) == TRUE

\* result.validierung && result.validierung !== 'ok'
ValidationFailed(v) == v # "missing" /\ v # "ok"

\* a then-handler that reads the email address from pendingFiles when it
\* needs it, instead of from the `pending` object captured at the launch
thenHandlerSuccessReadsMap(m, u, logOk) ==
    LET s == m.jobs[u].sid
        stored == [m EXCEPT !.cr[s] = SuccessRecord(u)]
    IN  IF ~logOk THEN Settle(catchHandler(stored, u, 0), u)
        ELSE IF m.pf[s].present /\ m.pf[s].email THEN [stored EXCEPT !.jobs[u].pc = "pdf"]
        ELSE Settle(stored, u)

\* the then-handler for a result that passes the validation check, up to its
\* first await or its return: store the result, log analysis_completed (a
\* throw of the log enters the catch-handler), then PDF and email if
\* pending.email is set
thenHandlerSuccess(m, u, logOk) ==
    LET s == m.jobs[u].sid
        stored == [m EXCEPT !.cr[s] = SuccessRecord(u)]
    IN  IF ~logOk THEN Settle(catchHandler(stored, u, 0), u)
        ELSE IF m.jobs[u].email THEN [stored EXCEPT !.jobs[u].pc = "pdf"]
        ELSE Settle(stored, u)

\* the then-handler after autoRefund has returned `refunded`
thenHandlerValidation(m, u, refunded) ==
    LET s == m.jobs[u].sid
        stored == [m EXCEPT !.cr[s] =
                     FailureRecord(u, "validation_" \o m.jobs[u].val, refunded)]
    IN  Settle(stored, u)

\* runAnalysis resolves with a parsed result whose validierung is v (the
\* model answers only a client that holds an API key)
JobAnalysisReturns(u, v, logOk) ==
    /\ jobs[u].pc = "analysis"
    /\ env.anthropicKey
    /\ IF ValidationFailed(v)
       THEN \* autoRefund(sessionId, v): await stripe.checkout.sessions.retrieve
            Commit([Maps EXCEPT !.jobs[u].pc = "refund_retrieve", !.jobs[u].val = v])
       ELSE Commit(thenHandlerSuccess(Maps, u, logOk))
    /\ UNCHANGED <<refundCalls, events, orders>>
    /\ JobFrame

\* runAnalysis rejects with an error whose status is `status`
JobAnalysisFails(u, status) ==
    /\ jobs[u].pc = "analysis"
    /\ IF ShouldRetry(status, jobs[u].attempt, DefaultMaxRetries)
       THEN Commit([Maps EXCEPT !.jobs[u].pc = "delay"])
       ELSE Commit(Settle(catchHandler(Maps, u, status), u))
    /\ UNCHANGED <<refundCalls, events, orders>>
    /\ JobFrame

\* the timer of attempt * 3000 ms fires: the loop runs its next attempt
JobDelayElapses(u) ==
    /\ jobs[u].pc = "delay"
    /\ Commit([Maps EXCEPT !.jobs[u].pc = "analysis", !.jobs[u].attempt = @ + 1])
    /\ UNCHANGED <<refundCalls, events, orders>>
    /\ JobFrame

\* session.payment_intent && session.payment_status === 'paid'
RefundAllowed(s) == stripeSessions[s].payment_status = "paid"

\* autoRefund: stripe.checkout.sessions.retrieve returns (ok) or throws
JobRefundRetrieved(u, ok) ==
    /\ jobs[u].pc = "refund_retrieve"
    /\ LET s == jobs[u].sid IN
       IF ok /\ RefundAllowed(s)
       THEN \* await stripe.refunds.create(...)
            /\ refundCalls' = [refundCalls EXCEPT ![s] = @ + 1]
            /\ Commit([Maps EXCEPT !.jobs[u].pc = "refund_create"])
       ELSE /\ UNCHANGED refundCalls
            /\ Commit(thenHandlerValidation(Maps, u, FALSE))
    /\ UNCHANGED <<events, orders>>
    /\ JobFrame

\* autoRefund: stripe.refunds.create returns (ok: the payment is refunded)
\* or throws; on return the order and the refund_issued event are written
\* (logOk: the writes succeed, else autoRefund catches the throw)
JobRefundCreated(u, ok, logOk) ==
    /\ jobs[u].pc = "refund_create"
    /\ LET s == jobs[u].sid IN
       /\ stripeSessions' = [stripeSessions EXCEPT ![s].refunded = @ \/ ok]
       /\ IF ok /\ logOk
          THEN /\ orders' = [orders EXCEPT ![s] = "refunded"]
               /\ events' = [events EXCEPT ![s] = @ \cup {"refund_issued"}]
          ELSE UNCHANGED <<events, orders>>
       /\ Commit(thenHandlerValidation(Maps, u, ok /\ logOk))
    /\ UNCHANGED <<prep, parse, wrapper, env, pollsWaiting, nextUpload, refundCalls>>

\* a PDF step without its try/catch: a rejection enters the catch-handler
JobPdfRenderedUncaught(u, ok) ==
    /\ jobs[u].pc = "pdf"
    /\ IF ~ok THEN Commit(Settle(catchHandler(Maps, u, 0), u))
       ELSE IF env.resend THEN Commit([Maps EXCEPT !.jobs[u].pc = "email"])
       ELSE Commit(Settle(Maps, u))
    /\ UNCHANGED <<refundCalls, events, orders>>
    /\ JobFrame

\* await generatePDF(result) resolves (ok) or rejects; sendResultEmail
\* returns at once when resend is not configured
JobPdfRendered(u, ok) ==
    /\ jobs[u].pc = "pdf"
    /\ IF ok /\ env.resend
       THEN Commit([Maps EXCEPT !.jobs[u].pc = "email"])
       ELSE Commit(Settle(Maps, u))
    /\ UNCHANGED <<refundCalls, events, orders>>
    /\ JobFrame

\* await resend.emails.send(...) resolves or rejects; sendResultEmail
\* catches the rejection
JobEmailSent(u, ok) ==
    /\ jobs[u].pc = "email"
    /\ ok \in BOOLEAN
    /\ Commit(Settle(Maps, u))
    /\ UNCHANGED <<refundCalls, events, orders>>
    /\ JobFrame

JobStep ==
    \E u \in Uploads :
        \/ \E v \in ValidationStatuses, logOk \in BOOLEAN : JobAnalysisReturns(u, v, logOk)
        \/ \E status \in ErrorStatuses : JobAnalysisFails(u, status)
        \/ JobDelayElapses(u)
        \/ \E ok \in BOOLEAN : JobRefundRetrieved(u, ok)
        \/ \E ok \in BOOLEAN, logOk \in BOOLEAN : JobRefundCreated(u, ok, logOk)
        \/ \E ok \in BOOLEAN : JobPdfRendered(u, ok)
        \/ \E ok \in BOOLEAN : JobEmailSent(u, ok)


\* ------------------------------------------------- the request handlers
RECURSIVE SumOver(_, _)
SumOver(f, S) ==
    IF S = {} THEN 0
    ELSE LET x == CHOOSE y \in S : TRUE IN f[x] + SumOver(f, S \ {x})

\* a JSON answer of a handler; upload: the upload a reported record was
\* computed from
Reply(status, errorType, upload) ==
    [status |-> status, errorType |-> errorType, upload |-> upload]

\* what stripe.checkout.sessions.retrieve(sessionId) does: it throws for an
\* id Stripe does not know, and may throw for any id (network, API error)
LookupOutcomes(s) ==
    IF stripeSessions[s].payment_status = "none" THEN {"throw"}
    ELSE {"throw", stripeSessions[s].payment_status}

\* createCheckoutHandler, for a request that passes the checks and whose
\* stripe.checkout.sessions.create returns: the session exists, the upload is
\* stored and the order is written (a rejected request changes nothing)
Checkout(s, email) ==
    /\ stripeSessions[s].payment_status = "none"
    /\ nextUpload <= MaxUploads
    /\ stripeSessions' = [stripeSessions EXCEPT ![s] =
            [payment_status |-> "unpaid", customer_email |-> email,
             refunded |-> FALSE]]
    /\ pendingFiles' = [pendingFiles EXCEPT ![s] = PendingRecord(nextUpload, email)]
    /\ nextUpload' = nextUpload + 1
    /\ orders' = [orders EXCEPT ![s] = "none"]
    /\ UNCHANGED <<prep, parse, wrapper, env, activeAnalyses, completedResults, jobs, pollsWaiting,
                   refundCalls, events>>

\* the customer pays on the hosted checkout page
CustomerPays(s) ==
    /\ stripeSessions[s].payment_status = "unpaid"
    /\ stripeSessions' = [stripeSessions EXCEPT ![s].payment_status = "paid"]
    /\ UNCHANGED <<prep, parse, wrapper, env, pendingFiles, activeAnalyses, completedResults, jobs,
                   pollsWaiting, nextUpload, refundCalls,
                   events, orders>>

\* a poll that does not look at activeAnalyses
pollRequestReplySkipsActive(s) ==
    LET cached == completedResults[s] IN
    IF cached.present
    THEN IF cached.kind = "error"
         THEN Reply("error", cached.errorType, cached.upload)
         ELSE Reply("done", "", cached.upload)
    ELSE IF ~env.anthropicKey THEN Reply("error", "", 0)
    ELSE Reply("await_lookup", "", 0)

\* GET /api/result/:sessionId, steps 1 to 3 up to the payment lookup: the
\* answer, or "await_lookup" when the handler goes on to ask Stripe
pollRequestReply(s) ==
    LET cached == completedResults[s] IN
    IF cached.present
    THEN IF cached.kind = "error"
         THEN Reply("error", cached.errorType, cached.upload)
         ELSE Reply("done", "", cached.upload)
    ELSE IF s \in activeAnalyses THEN Reply("processing", "", 0)
    ELSE IF ~env.anthropicKey THEN Reply("error", "", 0)
    ELSE Reply("await_lookup", "", 0)

PollRequest(s) ==
    /\ IF pollRequestReply(s).status = "await_lookup"
       THEN /\ SumOver(pollsWaiting, SessionIds) < MaxPolls
            /\ pollsWaiting' = [pollsWaiting EXCEPT ![s] = @ + 1]
       ELSE UNCHANGED pollsWaiting
    /\ UNCHANGED <<prep, parse, wrapper, env, stripeSessions, pendingFiles, activeAnalyses, completedResults,
                   jobs, nextUpload, refundCalls, events, orders>>

\* a poll handler without its try/catch: a throw of the lookup or of the log
\* leaves the request without a tagged answer
pollLookupReplyUncaught(s, outcome, logOk) ==
    IF outcome = "throw" THEN Reply("", "", 0)
    ELSE IF outcome # "paid" THEN Reply("error", "", 0)
    ELSE IF ~logOk THEN Reply("", "", 0)
    ELSE IF ~pendingFiles[s].present THEN Reply("error", "files_expired", 0)
    ELSE Reply("processing", "", 0)

\* a poll that answers 'processing' without looking for the files
pollLookupReplyNoFilesCheck(s, outcome, logOk) ==
    IF outcome = "throw" THEN Reply("error", "", 0)
    ELSE IF outcome # "paid" THEN Reply("error", "", 0)
    ELSE IF ~logOk THEN Reply("error", "", 0)
    ELSE Reply("processing", "", 0)

\* GET /api/result/:sessionId, from the return of the payment lookup on: the
\* answer (logOk: upsertOrder and appendEvent succeed)
pollLookupReply(s, outcome, logOk) ==
    IF outcome = "throw" THEN Reply("error", "", 0)
    ELSE IF outcome # "paid" THEN Reply("error", "", 0)
    ELSE IF ~logOk THEN Reply("error", "", 0)
    ELSE IF ~pendingFiles[s].present THEN Reply("error", "files_expired", 0)
    ELSE Reply("processing", "", 0)

\* a poll that starts the job without looking at payment_status
pollLookupMapsAnyStatus(m, s, outcome, logOk) ==
    IF outcome # "throw" /\ logOk /\ m.pf[s].present
    THEN startBackgroundAnalysis(m, s)
    ELSE m

\* ... and the maps it leaves
pollLookupMaps(m, s, outcome, logOk) ==
    IF outcome = "paid" /\ logOk /\ m.pf[s].present
    THEN startBackgroundAnalysis(m, s)
    ELSE m

PollLookupReturns(s, outcome, logOk) ==
    /\ pollsWaiting[s] > 0
    /\ outcome \in LookupOutcomes(s)
    /\ pollsWaiting' = [pollsWaiting EXCEPT ![s] = @ - 1]
    /\ orders' = IF outcome = "paid" /\ logOk THEN [orders EXCEPT ![s] = "none"] ELSE orders
    /\ Commit(pollLookupMaps(Maps, s, outcome, logOk))
    /\ UNCHANGED <<prep, parse, wrapper, env, stripeSessions, nextUpload, refundCalls, events>>

\* POST /api/retry-analysis: the answer.  hasSessionId, hasFiles: the
\* request carries them; outcome: what the payment lookup does; logOk:
\* appendEvent succeeds; u: the number the new upload gets
retryReply(hasSessionId, hasFiles, outcome, logOk, u) ==
    IF ~hasSessionId THEN Reply("error", "", 0)
    ELSE IF ~hasFiles THEN Reply("error", "", 0)
    ELSE IF outcome = "throw" THEN Reply("error", "", 0)
    ELSE IF outcome # "paid" THEN Reply("error", "", 0)
    ELSE IF ~logOk THEN Reply("error", "", u)
    ELSE Reply("processing", "", u)

\* a retry that is content with any session Stripe knows
retryAcceptsAnyStatus(hasSessionId, hasFiles, outcome) ==
    hasSessionId /\ hasFiles /\ outcome # "throw"

\* the request passes the checks and the lookup reports the session paid
retryAccepts(hasSessionId, hasFiles, outcome) ==
    hasSessionId /\ hasFiles /\ outcome = "paid"

\* an accepted retry that forgets completedResults.delete
retryAcceptedKeepsRecord(m, s, u, email) ==
    startBackgroundAnalysis(
        [m EXCEPT !.act = @ \ {s}, !.pf[s] = PendingRecord(u, email)], s)

\* the accepted retry: clear the old markers, store the new files, start
retryAccepted(m, s, u, email) ==
    startBackgroundAnalysis(
        [m EXCEPT !.cr[s] = NoEntry, !.act = @ \ {s}, !.pf[s] = PendingRecord(u, email)], s)

\* POST /api/retry-analysis.  Before its await of the payment lookup the
\* handler reads and writes none of the maps, so the whole handler is taken
\* at the moment the lookup returns.
RetryAnalysis(s, hasSessionId, hasFiles, outcome) ==
    /\ outcome \in LookupOutcomes(s)
    /\ IF retryAccepts(hasSessionId, hasFiles, outcome)
       THEN /\ nextUpload <= MaxUploads
            /\ Commit(retryAccepted(Maps, s, nextUpload, stripeSessions[s].customer_email))
            /\ nextUpload' = nextUpload + 1
       ELSE UNCHANGED <<pendingFiles, activeAnalyses, completedResults, jobs, nextUpload>>
    /\ UNCHANGED <<prep, parse, wrapper, env, stripeSessions, pollsWaiting, refundCalls, events, orders>>

\* the webhook's launch condition
webhookStart(m, s) ==
    IF m.pf[s].present /\ s \notin m.act /\ ~m.cr[s].present
    THEN startBackgroundAnalysis(m, s)
    ELSE m

\* a webhook that skips constructEvent
webhookHandlesUnverified(signed, type) ==
    env.webhookSecret /\ type = "checkout.session.completed"

\* POST /webhook reaches the checkout.session.completed branch
webhookHandles(signed, type) ==
    env.webhookSecret /\ signed /\ type = "checkout.session.completed"

\* POST /webhook.  A delivery whose signature verifies comes from Stripe,
\* which sends checkout.session.completed for a session whose card payment
\* went through; any other delivery fails constructEvent.  logOk: upsertOrder
\* and appendEvent succeed (a throw leaves the handler before the launch).
Webhook(s, signed, type, logOk) ==
    /\ (signed /\ type = "checkout.session.completed")
          => stripeSessions[s].payment_status = "paid"
    /\ IF webhookHandles(signed, type) /\ logOk
       THEN /\ orders' = [orders EXCEPT ![s] = "none"]
            /\ Commit(webhookStart(Maps, s))
       ELSE UNCHANGED <<pendingFiles, activeAnalyses, completedResults, jobs, orders>>
    /\ UNCHANGED <<prep, parse, wrapper, env, stripeSessions, pollsWaiting, nextUpload,
                   refundCalls, events>>

\* a download that serves whatever record it finds
downloadReplyAnyRecord(s) ==
    LET cached == completedResults[s] IN
    IF ~cached.present THEN Reply("404", "", 0)
    ELSE Reply("pdf", "", cached.upload)

\* GET /api/download-pdf/:sessionId: 404, or the report of the stored result
downloadReply(s) ==
    LET cached == completedResults[s] IN
    IF ~cached.present \/ cached.kind # "result" THEN Reply("404", "", 0)
    ELSE Reply("pdf", "", cached.upload)

\* GET /api/download-pdf/:sessionId.  The handler reads completedResults
\* once, before its await of generatePDF, and writes none of the maps; ok:
\* generatePDF resolves and appendEvent succeeds, else the answer is 500.
DownloadPdf(s, ok) ==
    /\ events' = IF downloadReply(s).status = "pdf" /\ ok
                 THEN [events EXCEPT ![s] = @ \cup {"result_pdf_downloaded"}]
                 ELSE events
    /\ UNCHANGED <<prep, parse, wrapper, env, stripeSessions, pendingFiles, activeAnalyses,
                   completedResults, jobs, pollsWaiting, nextUpload, refundCalls, orders>>

\* ages above this are all older than both TTLs
AgeCap == TTL_RESULTS + TTL_FILES

Older(e) ==
    IF e.present /\ e.age < AgeCap THEN [e EXCEPT !.age = @ + TTL_FILES] ELSE e

\* time passes: Date.now() grows by TTL_FILES minutes
Tick ==
    /\ pendingFiles' = [s \in SessionIds |-> Older(pendingFiles[s])]
    /\ completedResults' = [s \in SessionIds |-> Older(completedResults[s])]
    /\ UNCHANGED <<prep, parse, wrapper, env, stripeSessions, activeAnalyses, jobs, pollsWaiting,
                   nextUpload, refundCalls, events, orders>>

\* a sweep that already removes an upload at the age of TTL_FILES
sweepFilesAtTtl(pf) ==
    [s \in SessionIds |-> IF pf[s].present /\ pf[s].age >= TTL_FILES THEN NoEntry ELSE pf[s]]

\* the two loops of the setInterval callback
sweepFiles(pf) ==
    [s \in SessionIds |-> IF pf[s].present /\ pf[s].age > TTL_FILES THEN NoEntry ELSE pf[s]]

sweepResults(cr) ==
    [s \in SessionIds |-> IF cr[s].present /\ cr[s].age > TTL_RESULTS THEN NoEntry ELSE cr[s]]

\* setInterval(() => { ... }, 5 * 60 * 1000)
Sweep ==
    /\ pendingFiles' = sweepFiles(pendingFiles)
    /\ completedResults' = sweepResults(completedResults)
    /\ UNCHANGED <<prep, parse, wrapper, env, stripeSessions, activeAnalyses, jobs, pollsWaiting,
                   nextUpload, refundCalls, events, orders>>

WebhookTypes == {"checkout.session.completed", "payment_intent.created"}

Next ==
    \/ \E s \in Sessions, email \in BOOLEAN : Checkout(s, email)
    \/ \E s \in Sessions : CustomerPays(s)
    \/ \E s \in Sessions : PollRequest(s)
    \/ \E s \in Sessions, outcome \in {"throw", "unpaid", "paid"}, logOk \in BOOLEAN :
            PollLookupReturns(s, outcome, logOk)
    \/ \E s \in Sessions, hasSessionId \in BOOLEAN, hasFiles \in BOOLEAN,
          outcome \in {"throw", "unpaid", "paid"} :
            RetryAnalysis(s, hasSessionId, hasFiles, outcome)
    \/ \E s \in Sessions, signed \in BOOLEAN, type \in WebhookTypes, logOk \in BOOLEAN :
            Webhook(s, signed, type, logOk)
    \/ \E s \in Sessions, ok \in BOOLEAN : DownloadPdf(s, ok)
    \/ JobStep
    \/ Tick
    \/ Sweep

Spec == Init /\ [][Next]_vars

\* ------------------------------------------------- other specifications
\* polls and webhook deliveries alone: no retry request, no eviction
NextPolling ==
    \/ \E s \in Sessions, email \in BOOLEAN : Checkout(s, email)
    \/ \E s \in Sessions : CustomerPays(s)
    \/ \E s \in Sessions : PollRequest(s)
    \/ \E s \in Sessions, outcome \in {"throw", "unpaid", "paid"}, logOk \in BOOLEAN :
            PollLookupReturns(s, outcome, logOk)
    \/ \E s \in Sessions, signed \in BOOLEAN, type \in WebhookTypes, logOk \in BOOLEAN :
            Webhook(s, signed, type, logOk)
    \/ JobStep

SpecPolling == Init /\ [][NextPolling]_vars

\* the next step of the job of upload u, whatever its external call does
JobProgress(u) ==
    \/ \E v \in ValidationStatuses, logOk \in BOOLEAN : JobAnalysisReturns(u, v, logOk)
    \/ \E status \in ErrorStatuses : JobAnalysisFails(u, status)
    \/ JobDelayElapses(u)
    \/ \E ok \in BOOLEAN : JobRefundRetrieved(u, ok)
    \/ \E ok \in BOOLEAN, logOk \in BOOLEAN : JobRefundCreated(u, ok, logOk)
    \/ \E ok \in BOOLEAN : JobPdfRendered(u, ok)
    \/ \E ok \in BOOLEAN : JobEmailSent(u, ok)

\* every external call of a job returns or fails: each job takes its next step
FairSpec ==
    /\ Init
    /\ [][Next]_vars
    /\ \A u \in Uploads : WF_vars(JobProgress(u))

\* two customers, polls and webhook deliveries.  The payment lookup of every
\* waiting poll returns; the client of cs_2 keeps polling, its lookups do not
\* fail for ever and the external calls of its job return.  Nothing is
\* assumed about the job of cs_1: its analysis call may never return.
InitTwo ==
    /\ env = [anthropicKey |-> TRUE, webhookSecret |-> TRUE, resend |-> TRUE]
    /\ InitMaps
    /\ wrapper = WrapperIdle
    /\ parse = ParseIdle
    /\ prep = PrepIdle

NextTwo ==
    \/ \E s \in SessionIds, email \in BOOLEAN : Checkout(s, email)
    \/ \E s \in SessionIds : CustomerPays(s)
    \/ \E s \in SessionIds : PollRequest(s)
    \/ \E s \in SessionIds, outcome \in {"throw", "unpaid", "paid"}, logOk \in BOOLEAN :
            PollLookupReturns(s, outcome, logOk)
    \/ \E s \in SessionIds, signed \in BOOLEAN, type \in WebhookTypes, logOk \in BOOLEAN :
            Webhook(s, signed, type, logOk)
    \/ JobStep

SpecTwo ==
    /\ InitTwo
    /\ [][NextTwo]_vars
    /\ \A s \in SessionIds :
          WF_vars(\E outcome \in {"throw", "unpaid", "paid"}, logOk \in BOOLEAN :
                      PollLookupReturns(s, outcome, logOk))
    /\ SF_vars(PollRequest("cs_2") /\ pollsWaiting' # pollsWaiting)
    /\ SF_vars(PollLookupReturns("cs_2", "paid", TRUE))
    /\ \A u \in Uploads : WF_vars(jobs[u].sid = "cs_2" /\ JobProgress(u))

\* ------------------------------------- runAnalysisWithRetry on its own
\* One call runAnalysisWithRetry(files, context, maxRetries), with the
\* outcome of each runAnalysis invocation left open.  An error is the pair
\* of the invocation that threw it and its status; delays are in seconds.
WrapperStart(maxRetries) ==
    [WrapperIdle EXCEPT !.pc = "invoke", !.maxRetries = maxRetries,
                        !.attempt = 1, !.invocations = 1]

\* a throw that wraps the error and loses its status
WrapperThrowsWrapped(w, err) ==
    [w EXCEPT !.pc = "thrown", !.outcome = [by |-> err.by, status |-> 0]]

\* throw err / throw lastError
WrapperThrows(w, err) ==
    [w EXCEPT !.pc = "thrown", !.outcome = err]

\* return await runAnalysis(...) resolves
WrapperInvokeReturns ==
    /\ wrapper.pc = "invoke"
    /\ wrapper' = [wrapper EXCEPT !.pc = "returned",
                                  !.outcome = [by |-> wrapper.attempt, status |-> 0]]
    /\ UNCHANGED <<prep, parse, env, stripeSessions, pendingFiles, activeAnalyses, completedResults,
                   jobs, pollsWaiting, nextUpload, refundCalls, events, orders>>

\* a backoff that doubles: 3 s, 6 s, 12 s
RetryDelayDoubling(attempt) == 3 * 2 ^ (attempt - 1)

\* const delay = attempt * 3000, in seconds
RetryDelay(attempt) == attempt * 3

\* await runAnalysis(...) rejects with an error of this status
WrapperInvokeFails(status) ==
    /\ wrapper.pc = "invoke"
    /\ LET err == [by |-> wrapper.attempt, status |-> status]
           w == [wrapper EXCEPT !.lastError = err]
       IN  wrapper' = IF ShouldRetry(status, wrapper.attempt, wrapper.maxRetries)
                      THEN [w EXCEPT !.pc = "delay", !.delay = RetryDelay(wrapper.attempt)]
                      ELSE WrapperThrows(w, err)
    /\ UNCHANGED <<prep, parse, env, stripeSessions, pendingFiles, activeAnalyses, completedResults,
                   jobs, pollsWaiting, nextUpload, refundCalls, events, orders>>

\* the timer fires; attempt++; the loop test; the next invocation, or
\* throw lastError after the loop
WrapperDelayElapses ==
    /\ wrapper.pc = "delay"
    /\ LET w == [wrapper EXCEPT !.waited = @ + wrapper.delay, !.delays = @ + 1,
                                !.delay = 0, !.attempt = @ + 1]
       IN  wrapper' = IF w.attempt <= w.maxRetries + 1
                      THEN [w EXCEPT !.pc = "invoke", !.invocations = @ + 1]
                      ELSE WrapperThrows(w, w.lastError)
    /\ UNCHANGED <<prep, parse, env, stripeSessions, pendingFiles, activeAnalyses, completedResults,
                   jobs, pollsWaiting, nextUpload, refundCalls, events, orders>>

InitRetry ==
    /\ env = [anthropicKey |-> TRUE, webhookSecret |-> TRUE, resend |-> TRUE]
    /\ InitMaps
    /\ wrapper \in {WrapperStart(maxRetries) : maxRetries \in 0..MaxMaxRetries}
    /\ parse = ParseIdle
    /\ prep = PrepIdle

NextRetry ==
    \/ WrapperInvokeReturns
    \/ \E status \in WrapperStatuses : WrapperInvokeFails(status)
    \/ WrapperDelayElapses

SpecRetry == InitRetry /\ [][NextRetry]_vars

\* ---------------------------- runAnalysis: from the response to the result
\* One model response handled by runAnalysis, from the regex match to
\* JSON.parse.  A text is a sequence of characters; "q" is the double quote,
\* "a" any ordinary letter.  The documents are {"f":[{"t":"..."},...]}.
At(s, i) == IF i >= 1 /\ i <= Len(s) THEN s[i] ELSE ""

\* responseText.match(/\{[\s\S]*\}/): from the first "{" to the last "}";
\* the empty text stands for null
jsonMatch(text) ==
    LET opens == {i \in 1..Len(text) : text[i] = "{"}
        closes == {i \in 1..Len(text) : text[i] = "}"}
    IN  IF opens = {} \/ closes = {} THEN <<>>
        ELSE LET a == CHOOSE i \in opens : \A j \in opens : i <= j
                 b == CHOOSE i \in closes : \A j \in closes : j <= i
             IN  IF b < a THEN <<>> ELSE SubSeq(text, a, b)

\* the counting loop over the characters of jsonStr, from character i on
RECURSIVE repairScan(_, _, _)
repairScan(s, i, st) ==
    IF i > Len(s) THEN st
    ELSE LET ch == s[i] IN
         repairScan(s, i + 1,
            IF st.escaped THEN [st EXCEPT !.escaped = FALSE]
            ELSE IF ch = "\\" THEN [st EXCEPT !.escaped = TRUE]
            ELSE IF ch = "q" THEN [st EXCEPT !.inString = ~@]
            ELSE IF st.inString THEN st
            ELSE IF ch = "{" THEN [st EXCEPT !.openBraces = @ + 1]
            ELSE IF ch = "}" THEN [st EXCEPT !.openBraces = @ - 1]
            ELSE IF ch = "[" THEN [st EXCEPT !.openBrackets = @ + 1]
            ELSE IF ch = "]" THEN [st EXCEPT !.openBrackets = @ - 1]
            ELSE st)

\* n copies of ch, none for n <= 0
Repeat(ch, n) == [i \in 1..n |-> ch]

\* jsonStr.replace(/,\s*$/, '')
stripTrailingComma(s) ==
    IF Len(s) > 0 /\ s[Len(s)] = "," THEN SubSeq(s, 1, Len(s) - 1) ELSE s

\* the repair of a truncated response
repairJson(s) ==
    LET st == repairScan(s, 1, [openBraces |-> 0, openBrackets |-> 0,
                                inString |-> FALSE, escaped |-> FALSE])
        closed == IF st.inString THEN s \o <<"q">> ELSE s
    IN  stripTrailingComma(closed) \o Repeat("]", st.openBrackets)
                                   \o Repeat("}", st.openBraces)

\* JSON.parse as a recogniser of the texts over this alphabet: each operator
\* returns the position after the parsed item, or 0 for a SyntaxError
RECURSIVE ParseStringEnd(_, _)
ParseStringEnd(s, j) ==
    IF j > Len(s) THEN 0
    ELSE IF s[j] = "q" THEN j + 1
    ELSE IF s[j] = "\\"
         THEN IF At(s, j + 1) \in {"q", "\\"} THEN ParseStringEnd(s, j + 2) ELSE 0
    ELSE ParseStringEnd(s, j + 1)

ParseString(s, i) == IF At(s, i) = "q" THEN ParseStringEnd(s, i + 1) ELSE 0

RECURSIVE ParseValue(_, _)
RECURSIVE ParseMembers(_, _)
RECURSIVE ParseElements(_, _)
ParseValue(s, i) ==
    IF At(s, i) = "q" THEN ParseString(s, i)
    ELSE IF At(s, i) = "{"
         THEN IF At(s, i + 1) = "}" THEN i + 2 ELSE ParseMembers(s, i + 1)
    ELSE IF At(s, i) = "["
         THEN IF At(s, i + 1) = "]" THEN i + 2 ELSE ParseElements(s, i + 1)
    ELSE 0

ParseMembers(s, i) ==
    LET k == ParseString(s, i) IN
    IF k = 0 \/ At(s, k) # ":" THEN 0
    ELSE LET v == ParseValue(s, k + 1) IN
         IF v = 0 THEN 0
         ELSE IF At(s, v) = "," THEN ParseMembers(s, v + 1)
         ELSE IF At(s, v) = "}" THEN v + 1
         ELSE 0

ParseElements(s, i) ==
    LET v == ParseValue(s, i) IN
    IF v = 0 THEN 0
    ELSE IF At(s, v) = "," THEN ParseElements(s, v + 1)
    ELSE IF At(s, v) = "]" THEN v + 1
    ELSE 0

JSONparses(s) == Len(s) > 0 /\ ParseValue(s, 1) = Len(s) + 1

\* the documents the model is asked for, and their truncations
StringContents == {<<"a", "a">>, <<"a", "}">>, <<"\\", "q">>}

ElementOpen == <<"{", "q", "t", "q", ":", "q">>
Element(c) == ElementOpen \o c \o <<"q", "}">>

RECURSIVE Elements(_)
Elements(cs) ==
    IF cs = <<>> THEN <<>>
    ELSE IF Len(cs) = 1 THEN Element(cs[1])
    ELSE Element(cs[1]) \o <<",">> \o Elements(Tail(cs))

DocumentOpen == <<"{", "q", "f", "q", ":", "[">>
Document(cs) == DocumentOpen \o Elements(cs) \o <<"]", "}">>

\* the response cut after k characters of the string of the element that
\* follows the complete elements cs
Truncated(cs, c, k) ==
    DocumentOpen \o Elements(cs) \o (IF cs = <<>> THEN <<>> ELSE <<",">>)
                 \o ElementOpen \o SubSeq(c, 1, k)

ContentLists == UNION {[1..n -> StringContents] : n \in 0..MaxFindings}

Responses ==
    {[text |-> Truncated(cs, c, k), stop |-> "max_tokens", expected |-> Document(cs)] :
        cs \in ContentLists, c \in StringContents, k \in 0..2}
    \cup {[text |-> Document(cs), stop |-> "end_turn", expected |-> Document(cs)] :
        cs \in ContentLists}
    \cup {[text |-> <<"a", "a">>, stop |-> "end_turn", expected |-> <<>>]}

\* parsed.wohnflaeche_erkannt as the model wrote it: no such field, JSON
\* null, the empty string, the string 'null', or a recognised area
RecognisedAreas == {"absent", "json_null", "", "null", "80 m²"}

\* analysisContext.livingAreaSqm: null ("none") or the caller's number
CallerAreas == {"none", "65"}

ParseStart(r, wohnflaeche, livingAreaSqm) ==
    [pc |-> "response", attempt |-> 0, text |-> r.text, stop |-> r.stop,
     expected |-> r.expected, jsonStr |-> <<>>, error |-> "",
     wohnflaeche |-> wohnflaeche, livingAreaSqm |-> livingAreaSqm, result |-> ""]

\* a backfill that overwrites whatever the model recognised
backfillAlways(wohnflaeche, livingAreaSqm) ==
    IF livingAreaSqm # "none"
    THEN livingAreaSqm \o " m² (vom Nutzer angegeben)"
    ELSE wohnflaeche

\* (!parsed.wohnflaeche_erkannt || parsed.wohnflaeche_erkannt === 'null')
\*     && analysisContext.livingAreaSqm: the field of the returned result
backfill(wohnflaeche, livingAreaSqm) ==
    IF (wohnflaeche \in {"absent", "json_null", ""} \/ wohnflaeche = "null")
          /\ livingAreaSqm # "none"
    THEN livingAreaSqm \o " m² (vom Nutzer angegeben)"
    ELSE wohnflaeche

\* runAnalysis from `const jsonMatch = ...` to `return parsed`
RunAnalysisResponse ==
    /\ parse.pc = "response"
    /\ LET m == jsonMatch(parse.text) IN
       IF m = <<>>
       THEN parse' = [parse EXCEPT !.pc = "thrown", !.error = "Kein JSON"]
       ELSE LET jsonStr == IF parse.stop = "max_tokens" THEN repairJson(m) ELSE m IN
            parse' = IF JSONparses(jsonStr)
                     THEN [parse EXCEPT !.pc = "returned", !.jsonStr = jsonStr,
                                        !.result = backfill(parse.wohnflaeche,
                                                            parse.livingAreaSqm)]
                     ELSE [parse EXCEPT !.pc = "thrown", !.jsonStr = jsonStr,
                                        !.error = "SyntaxError"]
    /\ UNCHANGED <<prep, wrapper, env, stripeSessions, pendingFiles, activeAnalyses,
                   completedResults, jobs, pollsWaiting, nextUpload, refundCalls,
                   events, orders>>

InitParse ==
    /\ env = [anthropicKey |-> TRUE, webhookSecret |-> TRUE, resend |-> TRUE]
    /\ InitMaps
    /\ wrapper = WrapperIdle
    /\ parse \in {ParseStart(r, wohnflaeche, livingAreaSqm) :
                     r \in Responses, wohnflaeche \in RecognisedAreas,
                     livingAreaSqm \in CallerAreas}
    /\ prep = PrepIdle

NextParse == RunAnalysisResponse

SpecParse == InitParse /\ [][NextParse]_vars

\* ------------------------- runAnalysisWithRetry with its model responses
\* One call of runAnalysisWithRetry in which every invocation of runAnalysis
\* gets a response from the model; parse.attempt is the invocation the
\* response belongs to.
\* err.status of `new Error('Kein JSON ...')` and of JSON.parse's SyntaxError
ParseErrorStatus == 0

\* anthropic.messages.create resolves with the response r
ResponseArrives(r, wohnflaeche) ==
    /\ wrapper.pc = "invoke"
    /\ parse.attempt # wrapper.attempt
    /\ parse' = [ParseStart(r, wohnflaeche, parse.livingAreaSqm)
                    EXCEPT !.attempt = wrapper.attempt]
    /\ UNCHANGED <<prep, wrapper, env, stripeSessions, pendingFiles, activeAnalyses,
                   completedResults, jobs, pollsWaiting, nextUpload, refundCalls,
                   events, orders>>

\* runAnalysis returns the parsed result to the wrapper
RunAnalysisResolves ==
    /\ parse.pc = "returned"
    /\ parse.attempt = wrapper.attempt
    /\ WrapperInvokeReturns

\* runAnalysis throws the missing-JSON error or the SyntaxError to the wrapper
RunAnalysisRejects ==
    /\ parse.pc = "thrown"
    /\ parse.attempt = wrapper.attempt
    /\ WrapperInvokeFails(ParseErrorStatus)

InitCall ==
    /\ env = [anthropicKey |-> TRUE, webhookSecret |-> TRUE, resend |-> TRUE]
    /\ InitMaps
    /\ wrapper \in {WrapperStart(maxRetries) : maxRetries \in 0..MaxMaxRetries}
    /\ parse \in {[ParseIdle EXCEPT !.livingAreaSqm = a] : a \in CallerAreas}
    /\ prep = PrepIdle

NextCall ==
    \/ \E r \in Responses, wohnflaeche \in RecognisedAreas :
            ResponseArrives(r, wohnflaeche)
    \/ RunAnalysisResponse
    \/ RunAnalysisResolves
    \/ RunAnalysisRejects
    \/ WrapperDelayElapses

SpecCall == InitCall /\ [][NextCall]_vars

\* ------------------------------------------------- buildContentFromFiles
\* One call of buildContentFromFiles(files).  A file is described by what the
\* code reads of it: the mimetype, the size of the buffer in bytes, for a PDF
\* whether pdfParse resolves, the length of pdfData.text and how many of its
\* characters are leading or trailing white space, for an image whether
\* sharp can read it and its width and height in pixels.  A block is
\* described by its type, by where its payload comes from, and by the size
\* of the payload.
PdfFile(parseOk, rawLen, ws, bytes) ==
    [mimetype |-> "application/pdf", readable |-> parseOk, rawLen |-> rawLen,
     ws |-> ws, bytes |-> bytes, width |-> 0, height |-> 0]

ImageFile(readable, width, height) ==
    [mimetype |-> "image/png", readable |-> readable, rawLen |-> 0, ws |-> 0,
     bytes |-> 1024, width |-> width, height |-> height]

Block(type, from, chars, marker, bytes, width, height) ==
    [type |-> type, from |-> from, chars |-> chars, marker |-> marker,
     bytes |-> bytes, width |-> width, height |-> height]

\* pdfData.text.trim().length
TrimmedLength(file) == file.rawLen - file.ws

\* a fallback that sends the raw document whatever its size
visionFallbackAnySize(file) ==
    Block("document", "original", 0, FALSE, file.bytes, 0, 0)

\* the raw document, or the placeholder text for a buffer above the size cap
\* (the else branch of the length test and the catch block do the same)
visionFallback(file) ==
    IF file.bytes > MAX_PDF_BASE64_MB * 1024 * 1024
    THEN Block("text", "placeholder", 0, FALSE, 0, 0, 0)
    ELSE Block("document", "original", 0, FALSE, file.bytes, 0, 0)

\* the block pushed for a file whose mimetype is application/pdf
pdfBlock(file) ==
    IF ~file.readable THEN visionFallback(file)
    ELSE LET n == TrimmedLength(file) IN
         IF n > 100
         THEN IF n > MAX_PDF_TEXT_CHARS
              THEN Block("text", "pdf_text", MAX_PDF_TEXT_CHARS, TRUE, 0, 0, 0)
              ELSE Block("text", "pdf_text", n, FALSE, 0, 0, 0)
         ELSE visionFallback(file)

\* sharp's resize(MAX_IMAGE_WIDTH, null): the height that keeps the aspect
\* ratio, rounded, at least one pixel
ScaledHeight(width, height) ==
    LET h == (2 * height * MAX_IMAGE_WIDTH + width) \div (2 * width)
    IN  IF h < 1 THEN 1 ELSE h

\* compressImage: the dimensions of the JPEG it returns
compressImage(file) ==
    IF file.width > MAX_IMAGE_WIDTH
    THEN [width |-> MAX_IMAGE_WIDTH, height |-> ScaledHeight(file.width, file.height)]
    ELSE [width |-> file.width, height |-> file.height]

\* the block pushed for any other file
imageBlock(file) ==
    LET out == compressImage(file)
    IN  Block("image", "reencoded", 0, FALSE, 0, out.width, out.height)

\* the loop body for a PDF: await pdfParse, push one block
BuildPdfBlock ==
    /\ prep.pc = "loop"
    /\ Len(prep.content) < Len(prep.files)
    /\ LET file == prep.files[Len(prep.content) + 1] IN
       /\ file.mimetype = "application/pdf"
       /\ prep' = [prep EXCEPT !.content = Append(@, pdfBlock(file))]
    /\ UNCHANGED <<parse, wrapper, env, stripeSessions, pendingFiles, activeAnalyses,
                   completedResults, jobs, pollsWaiting, nextUpload, refundCalls,
                   events, orders>>

\* the loop body for an image: await compressImage, push one block; a
\* rejection of sharp leaves buildContentFromFiles
BuildImageBlock ==
    /\ prep.pc = "loop"
    /\ Len(prep.content) < Len(prep.files)
    /\ LET file == prep.files[Len(prep.content) + 1] IN
       /\ file.mimetype # "application/pdf"
       /\ prep' = IF file.readable
                  THEN [prep EXCEPT !.content = Append(@, imageBlock(file))]
                  ELSE [prep EXCEPT !.pc = "thrown", !.error = "sharp"]
    /\ UNCHANGED <<parse, wrapper, env, stripeSessions, pendingFiles, activeAnalyses,
                   completedResults, jobs, pollsWaiting, nextUpload, refundCalls,
                   events, orders>>

\* after the loop: the instruction text, return content
BuildInstruction ==
    /\ prep.pc = "loop"
    /\ Len(prep.content) = Len(prep.files)
    /\ prep' = [prep EXCEPT
                  !.pc = "returned",
                  !.content = Append(@, Block("text", "instruction", Len(prep.files),
                                              FALSE, 0, 0, 0))]
    /\ UNCHANGED <<parse, wrapper, env, stripeSessions, pendingFiles, activeAnalyses,
                   completedResults, jobs, pollsWaiting, nextUpload, refundCalls,
                   events, orders>>

\* the uploads tried: texts around the two length limits, with and without
\* surrounding white space, buffers around the size cap, images around the
\* width cap
PdfFiles ==
    {PdfFile(TRUE, n + ws, ws, b) :
        n \in {0, 100, 101, MAX_PDF_TEXT_CHARS, MAX_PDF_TEXT_CHARS + 1},
        ws \in {0, 2},
        b \in {MAX_PDF_BASE64_MB * 1024 * 1024, MAX_PDF_BASE64_MB * 1024 * 1024 + 1}}
    \cup {PdfFile(FALSE, 0, 0, b) :
        b \in {MAX_PDF_BASE64_MB * 1024 * 1024, MAX_PDF_BASE64_MB * 1024 * 1024 + 1}}

ImageSides == {1, MAX_IMAGE_WIDTH, MAX_IMAGE_WIDTH + 1, 3 * MAX_IMAGE_WIDTH}

ImageFiles ==
    {ImageFile(TRUE, w, h) : w \in ImageSides, h \in ImageSides}
    \cup {ImageFile(FALSE, 0, 0)}

FileLists == UNION {[1..n -> PdfFiles \cup ImageFiles] : n \in 1..MaxFiles}

InitPrep ==
    /\ env = [anthropicKey |-> TRUE, webhookSecret |-> TRUE, resend |-> TRUE]
    /\ InitMaps
    /\ wrapper = WrapperIdle
    /\ parse = ParseIdle
    /\ prep \in {[PrepIdle EXCEPT !.pc = "loop", !.files = files] : files \in FileLists}

NextPrep ==
    \/ BuildPdfBlock
    \/ BuildImageBlock
    \/ BuildInstruction

SpecPrep == InitPrep /\ [][NextPrep]_vars

\* ------------------------------------------------------------ the claims
TotalLaunches(s) ==
    SumOver([u \in Uploads |-> IF jobs[u].sid = s THEN jobs[u].launches ELSE 0], Uploads)

\* the job of upload u runs its cleanup in this step
Settles(u) == InFlight(u) /\ jobs'[u].pc = "settled"

\* C1: no session is at the same time in activeAnalyses and a key of
\* completedResults, in any state another handler can observe.
C1_ActiveExcludesCompleted ==
    \A s \in Sessions : ~(s \in activeAnalyses /\ completedResults[s].present)

\* C2: with polls and webhook deliveries alone, runAnalysisWithRetry is invoked
\* at most once for a session, and each of the concurrent polls that asked
\* Stripe about the session and is told 'paid' answers 'processing'.
C2_EveryPollProcessing ==
    \A s \in Sessions :
        /\ TotalLaunches(s) <= 1
        /\ (pollsWaiting[s] > 0 /\ "paid" \in LookupOutcomes(s))
                => pollLookupReply(s, "paid", TRUE).status = "processing"

\* C3: at most one background job is in flight for a session at any time.
C3_AtMostOneJobInFlight ==
    \A s \in Sessions : Cardinality(JobsInFlight(s)) <= 1

\* C4: a session is in activeAnalyses exactly while a job launched for it has
\* not yet run its cleanup.
C4_ActiveIffJobInFlight ==
    \A s \in Sessions : (s \in activeAnalyses) <=> (JobsInFlight(s) # {})

\* C5: if every external call of a job returns or fails, a session that is
\* in activeAnalyses eventually leaves it, whatever the job's outcome.
C5_EventuallyInactive ==
    \A s \in Sessions : (s \in activeAnalyses) ~> (s \notin activeAnalyses)

\* a job whose analysis failed has settled and the flag is gone
C5_Witness ==
    \E u \in Uploads :
        /\ jobs[u].pc = "settled"
        /\ jobs[u].sid \notin activeAnalyses
        /\ completedResults[jobs[u].sid].present
        /\ completedResults[jobs[u].sid].errorType = "analysis_failed"

\* C6: right after a job's cleanup has run, pendingFiles has no entry for the
\* job's session.
C6_NoPendingAfterCleanup ==
    [][\A u \in Uploads : Settles(u) => ~pendingFiles'[jobs[u].sid].present]_vars

\* a job that refunded a validation failure has settled and the files are gone
C6_Witness ==
    \E u \in Uploads :
        /\ jobs[u].pc = "settled"
        /\ ~pendingFiles[jobs[u].sid].present
        /\ completedResults[jobs[u].sid].present
        /\ completedResults[jobs[u].sid].upload = u
        /\ completedResults[jobs[u].sid].refunded

\* C7: every job that settles leaves a completedRecord for its session at the
\* moment its cleanup runs.
C7_RecordAtCleanup ==
    [][\A u \in Uploads : Settles(u) => completedResults'[jobs[u].sid].present]_vars

\* C8: a job is launched only for a session the payment collaborator reports
\* as paid.
C8_LaunchOnlyIfPaid ==
    \A u \in Uploads :
        jobs[u].pc # "none" => stripeSessions[jobs[u].sid].payment_status = "paid"

\* a job is in flight for a paid session, started without the webhook
C8_Witness ==
    \E u \in Uploads :
        /\ InFlight(u)
        /\ ~env.webhookSecret
        /\ stripeSessions[jobs[u].sid].payment_status = "paid"

\* C9: stripe.refunds.create is called only by a job whose result carries a
\* validation status other than 'ok', and such a job ends with a validation
\* Failure record, never with a Success record or an infra failure.
C9_RefundOnlyOnValidationFailure ==
    [][/\ \A s \in Sessions :
            refundCalls'[s] # refundCalls[s] =>
                \E u \in Uploads :
                    /\ jobs[u].sid = s
                    /\ jobs[u].pc = "refund_retrieve" /\ jobs'[u].pc = "refund_create"
                    /\ jobs[u].val \notin {"ok", "missing"}
                    /\ refundCalls'[s] = refundCalls[s] + 1
       /\ \A u \in Uploads :
            (jobs[u].pc = "refund_create" /\ Settles(u)) =>
                /\ completedResults'[jobs[u].sid].kind = "error"
                /\ completedResults'[jobs[u].sid].errorType = "validation_" \o jobs[u].val
      ]_vars

\* a job with an unreadable document has called stripe.refunds.create
C9_Witness ==
    \E u \in Uploads :
        /\ jobs[u].pc = "refund_create"
        /\ jobs[u].val = "nicht_lesbar"
        /\ refundCalls[jobs[u].sid] = 1

\* C10: stripe.refunds.create is called at most once per session; once a
\* refund_issued record exists for the session, no further call is made.
C10_NoSecondRefund ==
    [][\A s \in Sessions :
          /\ refundCalls'[s] <= 1
          /\ "refund_issued" \in events[s] => refundCalls'[s] = refundCalls[s]]_vars

\* C11: a retry request without session id, without files, whose payment
\* lookup fails or reports a status other than 'paid' is answered with an
\* error and leaves pendingFiles, activeAnalyses and completedResults as they
\* were; it launches no job.
C11_RejectedRetryChangesNothing ==
    [][\A s \in Sessions, hasSessionId \in BOOLEAN, hasFiles \in BOOLEAN,
          outcome \in {"throw", "unpaid", "paid"} :
          (/\ RetryAnalysis(s, hasSessionId, hasFiles, outcome)
           /\ ~(hasSessionId /\ hasFiles /\ outcome = "paid"))
          => /\ UNCHANGED <<pendingFiles, activeAnalyses, completedResults, jobs>>
             /\ \A logOk \in BOOLEAN :
                  retryReply(hasSessionId, hasFiles, outcome, logOk, nextUpload).status = "error"
      ]_vars

\* an unpaid session holds an upload and room for another one: a retry that
\* got through would replace it and launch a job
C11_Witness ==
    \E s \in Sessions :
        /\ stripeSessions[s].payment_status = "unpaid"
        /\ pendingFiles[s].present
        /\ nextUpload <= MaxUploads
        /\ ENABLED RetryAnalysis(s, TRUE, TRUE, "unpaid")

\* C12: while the record a settled job left for its session is in
\* completedResults, every poll answered for the session reports that record,
\* also a poll that was waiting for the payment lookup when the job settled;
\* none answers 'processing' or 'files_expired'.
C12_SettledPollReportsRecord ==
    \A s \in Sessions, u \in Uploads :
        (/\ jobs[u].pc = "settled" /\ jobs[u].sid = s
         /\ completedResults[s].present /\ completedResults[s].upload = u)
        => /\ pollRequestReply(s).status \in {"done", "error"}
           /\ pollRequestReply(s).upload = u
           /\ (pollsWaiting[s] > 0 /\ "paid" \in LookupOutcomes(s))
                 => pollLookupReply(s, "paid", TRUE) = pollRequestReply(s)

\* C13: in every state and for every session id, also one Stripe does not
\* know or whose lookup fails, the answer of a poll carries the status
\* 'processing', 'done' or 'error'.
C13_PollAlwaysTagged ==
    \A s \in Sessions :
        LET tags == {"processing", "done", "error"}
            first == pollRequestReply(s)
        IN  /\ first.status \in tags \cup {"await_lookup"}
            /\ (first.status = "await_lookup" \/ pollsWaiting[s] > 0)
                  => \A outcome \in LookupOutcomes(s), logOk \in BOOLEAN :
                        pollLookupReply(s, outcome, logOk).status \in tags

\* a poll waits for the lookup of a session id Stripe does not know
C13_Witness ==
    \E s \in Sessions :
        /\ pollsWaiting[s] > 0
        /\ LookupOutcomes(s) = {"throw"}

\* C14: for every maxRetries, a call whose first k <= maxRetries invocations
\* fail with transient errors (no status, 429, 500, 502, 503) goes on to
\* invocation k+1, and when that one succeeds the call returns its result
\* after exactly k retries; no call makes more than maxRetries+1 invocations.
C14_ReturnsAfterKRetries ==
    LET w == wrapper
        transient == {0, 429, 500, 502, 503}
    IN  (w.pc # "idle") =>
        /\ w.invocations <= w.maxRetries + 1
        /\ w.pc = "returned" =>
              /\ w.outcome.by = w.invocations
              /\ w.delays = w.invocations - 1
              /\ w.lastError.by = w.invocations - 1
        /\ w.pc = "thrown" =>
              ~(w.lastError.status \in transient /\ w.lastError.by <= w.maxRetries)
        /\ w.pc \in {"invoke", "delay"} =>
              (w.lastError.by > 0 => w.lastError.status \in transient)

\* [rate-limit, rate-limit, success] with maxRetries = 2
C14_Witness ==
    /\ wrapper.pc = "returned"
    /\ wrapper.maxRetries = 2
    /\ wrapper.lastError = [by |-> 2, status |-> 429]
    /\ wrapper.outcome.by = 3
    /\ wrapper.delays = 2

\* C15: an invocation that fails with a status outside {429, 500, 502, 503}
\* ends the call at once with that error, at whichever attempt: no delay is
\* waited and no further invocation is made.
C15_NonTransientPropagatesAtOnce ==
    LET w == wrapper IN
    (w.lastError.by > 0 /\ w.lastError.status \in {400, 401}) =>
        /\ w.pc = "thrown"
        /\ w.outcome = w.lastError
        /\ w.invocations = w.lastError.by
        /\ w.delays = w.lastError.by - 1
        /\ w.delay = 0

\* an authorization failure at the second attempt, after one rate limit
C15_Witness ==
    /\ wrapper.pc = "thrown"
    /\ wrapper.lastError = [by |-> 2, status |-> 401]
    /\ wrapper.delays = 1
    /\ wrapper.maxRetries = 2

\* C16: when all maxRetries+1 invocations fail with transient errors, the
\* call fails with the error of the last invocation, status unchanged.
C16_LastErrorUnchanged ==
    LET w == wrapper IN
    (w.pc = "thrown" /\ w.invocations = w.maxRetries + 1
        /\ w.lastError.status \in {0, 429, 500, 502, 503}) =>
        /\ w.outcome = w.lastError
        /\ w.outcome.by = w.maxRetries + 1
        /\ w.delays = w.maxRetries

\* three rate limits exhaust the default of two retries
C16_Witness ==
    /\ wrapper.pc = "thrown"
    /\ wrapper.maxRetries = DefaultMaxRetries
    /\ wrapper.invocations = 3
    /\ wrapper.outcome = [by |-> 3, status |-> 429]

\* C17: when a retry request is accepted, then at the moment the handler
\* answers 'processing' the session has no completedRecord, its pendingFiles
\* entry is the new upload, and a job whose input is the new upload is in
\* flight.
C17_AcceptedRetryStartsNewUpload ==
    [][\A s \in Sessions :
          RetryAnalysis(s, TRUE, TRUE, "paid") =>
              LET u == nextUpload IN
              /\ retryReply(TRUE, TRUE, "paid", TRUE, u) = Reply("processing", "", u)
              /\ ~completedResults'[s].present
              /\ pendingFiles'[s].present /\ pendingFiles'[s].upload = u
              /\ pendingFiles'[s].age = 0
              /\ jobs'[u].pc = "analysis" /\ jobs'[u].sid = s /\ jobs'[u].launches = 1
              /\ s \in activeAnalyses'
      ]_vars

\* the first upload ended with a Failure record; the retry has replaced it
\* and the job of the second upload is running
C17_Witness ==
    \E s \in Sessions :
        /\ jobs[1].pc = "settled" /\ jobs[1].sid = s
        /\ jobs[2].pc = "analysis" /\ jobs[2].sid = s /\ jobs[2].attempt = 1
        /\ pendingFiles[s].present /\ pendingFiles[s].upload = 2
        /\ ~completedResults[s].present
        /\ refundCalls[s] = 1

\* C18: once a retry has been accepted for a session, no poll reports an
\* outcome computed from an older upload: the record a poll reports never
\* belongs to an upload older than one for which a job has been launched.
C18_NoStaleOutcome ==
    \A s \in Sessions :
        LET reply == pollRequestReply(s) IN
        (reply.status \in {"done", "error"} /\ reply.upload > 0) =>
            \A u \in Uploads :
                (jobs[u].pc # "none" /\ jobs[u].sid = s) => u <= reply.upload

\* C19: a session uses its retry at most once: once jobs for two different
\* uploads of a session have been launched (the second upload can only have
\* come from an accepted retry), a further retry request is not accepted.
C19_SecondRetryRejected ==
    \A s \in Sessions :
        Cardinality(JobsOf(s)) >= 2 =>
            \A outcome \in LookupOutcomes(s) :
                /\ ~retryAccepts(TRUE, TRUE, outcome)
                /\ \A logOk \in BOOLEAN :
                     retryReply(TRUE, TRUE, outcome, logOk, nextUpload).status # "processing"

\* C20: a download is served only for a session whose completedRecord is a
\* Success record; for a session without a record or with a Failure record
\* the answer is 404 and the request changes no state.
C20_DownloadOnlyForSuccess ==
    [][\A s \in Sessions :
          LET success == completedResults[s].present /\ completedResults[s].kind = "result"
          IN  /\ ("result_pdf_downloaded" \in events'[s] /\ "result_pdf_downloaded" \notin events[s])
                    => success
              /\ \A ok \in BOOLEAN :
                    (DownloadPdf(s, ok) /\ ~success)
                        => /\ downloadReply(s).status = "404"
                           /\ UNCHANGED vars
              /\ success => /\ downloadReply(s).status = "pdf"
                             /\ downloadReply(s).upload = completedResults[s].upload
      ]_vars

\* the report of a Success record has been downloaded
C20_Witness ==
    \E s \in Sessions :
        /\ "result_pdf_downloaded" \in events[s]
        /\ completedResults[s].present
        /\ completedResults[s].kind = "result"

\* C21: a sweep removes a pendingFiles entry only when it is older than 30
\* minutes and a completedResults entry only when it is older than 60
\* minutes, keeps every entry at or below that age and leaves activeAnalyses
\* alone; a poll or a download removes no entry, and a poll reports a record
\* and a download serves a Success record whatever its age.
C21_SweepOnlyExpired ==
    [][\A s \in Sessions :
          /\ Sweep =>
                /\ pendingFiles'[s] =
                      IF pendingFiles[s].present /\ pendingFiles[s].age > 30
                      THEN NoEntry ELSE pendingFiles[s]
                /\ completedResults'[s] =
                      IF completedResults[s].present /\ completedResults[s].age > 60
                      THEN NoEntry ELSE completedResults[s]
                /\ UNCHANGED <<activeAnalyses, jobs>>
          /\ (PollRequest(s) \/ \E ok \in BOOLEAN : DownloadPdf(s, ok)) =>
                UNCHANGED <<pendingFiles, activeAnalyses, completedResults>>
          /\ completedResults[s].present =>
                /\ pollRequestReply(s).status \in {"done", "error"}
                /\ pollRequestReply(s).upload = completedResults[s].upload
                /\ completedResults[s].kind = "result" => downloadReply(s).status = "pdf"
      ]_vars

\* an upload was swept before any job was launched for its session, and
\* nothing else has happened to the session
C21_Witness ==
    \E s \in Sessions :
        /\ stripeSessions[s].payment_status = "paid"
        /\ ~pendingFiles[s].present
        /\ JobsOf(s) = {}
        /\ nextUpload = 2

\* C22: for a response cut off inside a string of an element of the array,
\* the repaired text parses and is the document of exactly the complete
\* elements that preceded the cut.
C22_RepairDropsIncompleteElement ==
    (parse.pc \in {"returned", "thrown"} /\ parse.stop = "max_tokens") =>
        /\ parse.pc = "returned"
        /\ parse.jsonStr = parse.expected

\* C23: whatever the job of cs_1 does, and so also when its analysis call
\* never returns, a paid cs_2 with a stored upload that is polled gets its
\* job launched and reaches a record in completedResults; while the job of
\* cs_1 hangs, a poll for cs_2 is answered from the maps of cs_2 alone.
C23_HungJobBlocksNoOtherSession ==
    /\ (stripeSessions["cs_2"].payment_status = "paid" /\ pendingFiles["cs_2"].present)
           ~> completedResults["cs_2"].present
    /\ [](("cs_1" \in activeAnalyses /\ "cs_2" \notin activeAnalyses
               /\ completedResults["cs_2"].present)
           => pollRequestReply("cs_2").status \in {"done", "error"})

C23_Witness ==
    \E u \in Uploads :
        /\ jobs[u].sid = "cs_1" /\ jobs[u].pc = "analysis" /\ jobs[u].attempt = 1
        /\ "cs_1" \in activeAnalyses
        /\ completedResults["cs_2"].present
        /\ \E w \in Uploads : jobs[w].sid = "cs_2" /\ jobs[w].pc = "settled"

\* C24: a poll for a session that is in activeAnalyses and has no record in
\* completedResults answers 'processing', starts no payment lookup and
\* leaves pendingFiles, activeAnalyses and completedResults (and the jobs)
\* as they are.
C24_PollWhileActiveIsNoOp ==
    /\ [](\A s \in Sessions :
            (s \in activeAnalyses /\ ~completedResults[s].present)
                => pollRequestReply(s) = Reply("processing", "", 0))
    /\ [][\A s \in Sessions :
            (s \in activeAnalyses /\ ~completedResults[s].present /\ PollRequest(s))
                => UNCHANGED <<pollsWaiting, pendingFiles, activeAnalyses,
                               completedResults, jobs, stripeSessions, orders, events>>]_vars

C24_Witness ==
    \E s \in Sessions :
        /\ s \in activeAnalyses
        /\ ~completedResults[s].present
        /\ pendingFiles[s].present
        /\ \E u \in JobsInFlight(s) : jobs[u].pc = "refund_create"

\* C25: when runAnalysisWithRetry returns a result, the job stores a Success
\* record if the result's validation status is 'ok', and stores no Success
\* record for any other status, a missing status included: it then goes on
\* to the refund and to a record of the kind 'validation_' + status.  (The
\* steps looked at are those whose analysis_completed event is logged.)
C25_SuccessIffStatusOk ==
    [][\A u \in Uploads, v \in ValidationStatuses :
          JobAnalysisReturns(u, v, TRUE) =>
              LET s == jobs[u].sid
                  success == /\ completedResults'[s].present
                             /\ completedResults'[s].kind = "result"
                             /\ completedResults'[s].upload = u
              IN  /\ v = "ok" => success
                  /\ v # "ok" => /\ ~success
                                 /\ jobs'[u].pc = "refund_retrieve"
                                 /\ jobs'[u].val = v]_vars

\* C26: for a session with one job, while the job is in autoRefund a poll
\* answers 'processing', and the validation Failure record the job leaves
\* carries refunded = TRUE exactly when Stripe has refunded the payment.
C26_RefundFlagIsRefundOutcome ==
    \A s \in Sessions :
        (TotalLaunches(s) <= 1) =>
            /\ \A u \in JobsInFlight(s) :
                   jobs[u].pc \in {"refund_retrieve", "refund_create"}
                       => pollRequestReply(s) = Reply("processing", "", 0)
            /\ LET r == completedResults[s] IN
               (r.present /\ r.kind = "error"
                   /\ r.errorType \in {"validation_" \o v : v \in ValidationStatuses})
                   => (r.refunded <=> stripeSessions[s].refunded)

\* C27: when runAnalysisWithRetry throws, the record the catch-handler stores
\* has the kind given by the error's status alone: 401 config_error, 429
\* rate_limit, anything else analysis_failed; it is not refunded; the three
\* kinds have three different messages; and a 429 reaches the catch-handler
\* only from invocation maxRetries + 1.
C27_KindByStatusAlone ==
    [][\A u \in Uploads, status \in ErrorStatuses :
          (JobAnalysisFails(u, status) /\ Settles(u)) =>
              LET r == completedResults'[jobs[u].sid]
                  kind == CASE status = 401 -> "config_error"
                            [] status = 429 -> "rate_limit"
                            [] OTHER -> "analysis_failed"
              IN  /\ r = FailureRecord(u, kind, FALSE)
                  /\ status = 429 => jobs[u].attempt = DefaultMaxRetries + 1
                  /\ \A k \in {"config_error", "rate_limit", "analysis_failed"} \ {kind} :
                         ErrorMsgOf(k) # ErrorMsgOf(kind)]_vars

C27_Witness ==
    \E s \in Sessions :
        /\ completedResults[s].present
        /\ completedResults[s].errorType = "rate_limit"
        /\ \E u \in JobsOf(s) : jobs[u].pc = "settled" /\ completedResults[s].upload = u

\* C28: a response without a JSON object, or whose (repaired) text does not
\* parse, makes runAnalysis throw and return no result; the wrapper retries
\* after such a failure as long as attempt <= maxRetries; when it gives up it
\* has invoked runAnalysis maxRetries + 1 times, and the catch-handler turns
\* the propagated error into an analysis_failed record that is not refunded.
C28_MalformedOutputRetried ==
    /\ parse.pc \in {"returned", "thrown"} =>
          LET m == jsonMatch(parse.text) IN
          /\ parse.pc = "thrown" <=> (m = <<>> \/ ~JSONparses(parse.jsonStr))
          /\ parse.pc = "returned" => JSONparses(parse.jsonStr)
    /\ (parse.pc = "thrown" /\ parse.attempt = wrapper.attempt
           /\ wrapper.attempt <= wrapper.maxRetries) => wrapper.pc \in {"invoke", "delay"}
    /\ wrapper.invocations <= wrapper.maxRetries + 1
    /\ wrapper.pc = "thrown" =>
          /\ wrapper.invocations = wrapper.maxRetries + 1
          /\ parse.pc = "thrown"
          /\ catchHandler([Maps EXCEPT !.jobs[1].sid = "cs_1"], 1,
                          wrapper.outcome.status).cr["cs_1"]
                 = FailureRecord(1, "analysis_failed", FALSE)

C28_Witness ==
    /\ wrapper.pc = "thrown"
    /\ wrapper.maxRetries = DefaultMaxRetries
    /\ wrapper.invocations = DefaultMaxRetries + 1
    /\ wrapper.delays = DefaultMaxRetries
    /\ parse.error = "SyntaxError"
    /\ parse.stop = "max_tokens"

\* C29: the steps of a job after its Success record is stored (PDF rendering
\* that succeeds or fails, no email configuration, email delivery that
\* succeeds or fails) leave completedResults as it is: a Success record of
\* the job stays that record, and a poll after the step answers 'done'.
C29_NotificationKeepsSuccess ==
    [][\A u \in Uploads, ok \in BOOLEAN :
          (JobPdfRendered(u, ok) \/ JobEmailSent(u, ok)) =>
              LET s == jobs[u].sid IN
              /\ UNCHANGED completedResults
              /\ (completedResults[s].present /\ completedResults[s].kind = "result"
                    /\ completedResults[s].upload = u)
                     => /\ completedResults'[s].kind = "result"
                        /\ pollRequestReply(s)' = Reply("done", "", u)]_vars

C29_Witness ==
    \E s \in Sessions, u \in Uploads :
        /\ jobs[u].sid = s /\ jobs[u].pc = "settled"
        /\ stripeSessions[s].customer_email
        /\ ~env.resend
        /\ completedResults[s].present
        /\ completedResults[s].kind = "result"
        /\ completedResults[s].upload = u

\* the handlers' results m1 and m2 agree on the records, the running set and
\* the jobs
SameOutcome(m1, m2) == m1.cr = m2.cr /\ m1.act = m2.act /\ m1.jobs = m2.jobs

\* C30: when the pendingFiles entry of a session is gone while a job of the
\* session is in flight, every handler of the job's chain leaves the same
\* record, running set and job as it would with the entry still in place;
\* and a sweep removes only pendingFiles entries older than TTL_FILES and
\* completedResults entries older than TTL_RESULTS, and touches neither
\* activeAnalyses nor a job.
C30_SweepLeavesJobAlone ==
    /\ [](\A u \in Uploads :
            (InFlight(u) /\ ~pendingFiles[jobs[u].sid].present) =>
                LET s == jobs[u].sid
                    kept == [Maps EXCEPT !.pf[s] = PendingRecord(u, jobs[u].email)]
                IN  /\ \A logOk \in BOOLEAN :
                         SameOutcome(thenHandlerSuccess(Maps, u, logOk),
                                         thenHandlerSuccess(kept, u, logOk))
                    /\ \A refunded \in BOOLEAN :
                         SameOutcome(thenHandlerValidation(Maps, u, refunded),
                                         thenHandlerValidation(kept, u, refunded))
                    /\ \A status \in ErrorStatuses :
                         SameOutcome(Settle(catchHandler(Maps, u, status), u),
                                         Settle(catchHandler(kept, u, status), u))
                    /\ Settle(Maps, u).pf = Settle(kept, u).pf)
    /\ [][Sweep =>
            /\ UNCHANGED <<activeAnalyses, jobs, stripeSessions, refundCalls>>
            /\ \A s \in Sessions :
                  /\ pendingFiles'[s] # pendingFiles[s] =>
                        (pendingFiles[s].age > TTL_FILES /\ ~pendingFiles'[s].present)
                  /\ completedResults'[s] # completedResults[s] =>
                        (completedResults[s].age > TTL_RESULTS
                           /\ ~completedResults'[s].present)]_vars

\* the upload of a session with a single upload is gone while the job that
\* captured it is sending the email
C30_Witness ==
    \E u \in Uploads :
        /\ jobs[u].pc = "email"
        /\ nextUpload = 2
        /\ ~pendingFiles[jobs[u].sid].present
        /\ completedResults[jobs[u].sid].present

C32_EveryPollErrorHasKind ==
    \A s \in Sessions :
        /\ pollRequestReply(s).status = "error" => pollRequestReply(s).errorType # ""
        /\ pollsWaiting[s] > 0 =>
              \A outcome \in LookupOutcomes(s) :
                  LET reply == pollLookupReply(s, outcome, TRUE) IN
                  reply.status = "error" => reply.errorType # ""

\* C33: the delay before retry number k is 3 k seconds; a delay is waited
\* only after a transient failure of an attempt <= maxRetries, so none
\* follows the last attempt or a non-transient failure; the time waited so
\* far is 3 (1 + ... + k) seconds after k retries, hence at most
\* 3 maxRetries (maxRetries + 1) / 2 in one call, 9 seconds for maxRetries 2.
C33_LinearBackoff ==
    LET w == wrapper IN
    (w.pc # "idle") =>
        /\ w.pc = "delay" =>
              /\ w.delay = 3 * (w.delays + 1)
              /\ w.attempt = w.delays + 1
              /\ w.attempt <= w.maxRetries
              /\ w.lastError.status \in {0, 429, 500, 502, 503}
        /\ w.pc # "delay" => w.delay = 0
        /\ 2 * w.waited = 3 * w.delays * (w.delays + 1)
        /\ 2 * w.waited <= 3 * w.maxRetries * (w.maxRetries + 1)
        /\ w.maxRetries = DefaultMaxRetries => w.waited <= 9
        /\ w.pc \in {"thrown", "returned"} => w.delays = w.invocations - 1
        /\ (w.pc = "thrown" /\ w.outcome.status \notin {0, 429, 500, 502, 503})
              => w.outcome.by = w.delays + 1

\* a call with maxRetries 2 gave up after waiting 3 + 6 seconds
C33_Witness ==
    /\ wrapper.pc = "thrown"
    /\ wrapper.maxRetries = DefaultMaxRetries
    /\ wrapper.delays = 2
    /\ wrapper.waited = 9

\* C34: every PDF gets exactly one block.  Text of more than 100 characters
\* gives a text block with the text, cut to 15000 characters and marked as
\* cut when it is longer; text of at most 100 characters, or a failure of
\* pdfParse, gives the raw document for a buffer of at most 5 MB and the
\* placeholder text for a larger one; a failure of pdfParse does not leave
\* buildContentFromFiles as an error.  (The length is that of the trimmed
\* text.)
C34_OneBlockPerPdf ==
    /\ Len(prep.content) <= Len(prep.files) + 1
    /\ prep.pc = "loop" => Len(prep.content) <= Len(prep.files)
    /\ prep.pc = "returned" => Len(prep.content) = Len(prep.files) + 1
    /\ prep.pc = "thrown" =>
          prep.files[Len(prep.content) + 1].mimetype # "application/pdf"
    /\ \A i \in 1..Len(prep.files) :
          (i <= Len(prep.content) /\ prep.files[i].mimetype = "application/pdf") =>
              LET f == prep.files[i]
                  b == prep.content[i]
                  n == f.rawLen - f.ws
                  cap == 5 * 1024 * 1024
              IN  /\ (f.readable /\ n > 100 /\ n <= 15000)
                        => (b.type = "text" /\ b.from = "pdf_text"
                              /\ b.chars = n /\ ~b.marker)
                  /\ (f.readable /\ n > 15000)
                        => (b.type = "text" /\ b.from = "pdf_text"
                              /\ b.chars = 15000 /\ b.marker)
                  /\ ((~f.readable \/ n <= 100) /\ f.bytes <= cap)
                        => (b.type = "document" /\ b.from = "original"
                              /\ b.bytes = f.bytes)
                  /\ ((~f.readable \/ n <= 100) /\ f.bytes > cap)
                        => (b.type = "text" /\ b.from = "placeholder")

\* a long text was cut, and an unparsable PDF above the size cap was replaced
\* by the placeholder
C34_Witness ==
    /\ prep.pc = "returned"
    /\ Len(prep.files) = 2
    /\ prep.files[1].mimetype = "application/pdf" /\ prep.content[1].marker
    /\ prep.files[2].mimetype = "application/pdf" /\ ~prep.files[2].readable
    /\ prep.content[2].from = "placeholder"

\* C35: every image is forwarded re-encoded, is never enlarged, and the
\* longer side of the forwarded image is at most 1200 pixels.
C35_LongerSideCapped ==
    \A i \in 1..Len(prep.files) :
        (i <= Len(prep.content) /\ prep.files[i].mimetype # "application/pdf") =>
            LET f == prep.files[i]
                b == prep.content[i]
            IN  /\ b.type = "image" /\ b.from = "reencoded"
                /\ b.width <= f.width /\ b.height <= f.height
                /\ b.width <= 1200 /\ b.height <= 1200

\* C36: the result runAnalysis returns carries the caller's floor area,
\* marked as given by the user, exactly when the caller gave one and the
\* parsed field is absent, null, empty or the string 'null'; in every other
\* case the field is as the model wrote it.
C36_BackfillOnlyWhenUnrecognised ==
    parse.pc = "returned" =>
        LET supplied == parse.livingAreaSqm # "none"
            unrecognised == parse.wohnflaeche \in {"absent", "json_null", "", "null"}
        IN  IF supplied /\ unrecognised
            THEN parse.result = parse.livingAreaSqm \o " m² (vom Nutzer angegeben)"
            ELSE parse.result = parse.wohnflaeche

C36_Witness ==
    /\ parse.pc = "returned"
    /\ parse.wohnflaeche = "null"
    /\ parse.livingAreaSqm = "65"
    /\ parse.result = "65 m² (vom Nutzer angegeben)"

\* C37: a webhook delivery changes the maps only by launching a job, and
\* only when the secret is configured, the signature verifies, the event is
\* checkout.session.completed and the session has a stored upload, is not in
\* activeAnalyses and has no record; then the job of that upload starts;
\* pendingFiles and completedResults are never written.  (A delivery whose
\* order or event write throws changes nothing at all.)
C37_WebhookLaunchCondition ==
    [][\A s \in Sessions, signed \in BOOLEAN, type \in WebhookTypes :
          Webhook(s, signed, type, TRUE) =>
              LET launchable == /\ env.webhookSecret
                                /\ signed
                                /\ type = "checkout.session.completed"
                                /\ pendingFiles[s].present
                                /\ s \notin activeAnalyses
                                /\ ~completedResults[s].present
              IN  /\ UNCHANGED <<pendingFiles, completedResults>>
                  /\ (activeAnalyses' # activeAnalyses \/ jobs' # jobs) => launchable
                  /\ ~launchable => UNCHANGED <<activeAnalyses, jobs>>
                  /\ launchable =>
                        /\ activeAnalyses' = activeAnalyses \cup {s}
                        /\ jobs'[pendingFiles[s].upload].pc = "analysis"
                        /\ jobs'[pendingFiles[s].upload].sid = s]_vars

\* a job runs on a server without API key (no poll reaches the launch) for a
\* session without retry: the webhook launched it
C37_Witness ==
    \E u \in Uploads :
        /\ jobs[u].pc = "analysis"
        /\ ~env.anthropicKey
        /\ env.webhookSecret
        /\ nextUpload = 2
        /\ jobs[u].sid \in activeAnalyses

\* C38: every stored upload is handed to runAnalysisWithRetry by at most one
\* job, whatever polls, webhook deliveries, sweeps and retries happen; an
\* upload whose job has started is in pendingFiles only while its session is
\* in activeAnalyses, so that no poll or delivery can start it again, also
\* after the sweep evicted the record.
C38_OneJobPerUpload ==
    /\ \A u \in Uploads : jobs[u].launches <= 1
    /\ \A s \in Sessions :
          (pendingFiles[s].present /\ jobs[pendingFiles[s].upload].launches > 0)
              => s \in activeAnalyses

\* no retry was made and the record of the settled job is gone, so the sweep
\* evicted it; the payment is still 'paid' and a poll awaits its lookup: the
\* upload was analysed once
C38_Witness ==
    \E u \in Uploads :
        /\ nextUpload = 2
        /\ jobs[u].pc = "settled"
        /\ jobs[u].launches = 1
        /\ ~completedResults[jobs[u].sid].present
        /\ jobs[u].sid \notin activeAnalyses
        /\ stripeSessions[jobs[u].sid].payment_status = "paid"
        /\ pollsWaiting[jobs[u].sid] > 0
        /\ env.anthropicKey
        /\ env.webhookSecret

\* C39: once the order of a session has refund status 'refunded', no step
\* (poll, webhook delivery, retry request, job) gives it another value.
C39_RefundedStays ==
    [][\A s \in Sessions : orders[s] = "refunded" => orders'[s] = "refunded"]_vars

====
